---- MODULE Spec2Model ----
(***************************************************************************)
(* A model of the Iterator pattern family of the repository:               *)
(*   - behavioral_patterns/Iterator.py: WordsCollection and                *)
(*     AlphabeticalOrderIterator (forward and reverse traversal);          *)
(*   - test_iterator.py: CalendarIterator, CollectionCalendarDays and the  *)
(*     two generator functions.                                            *)
(* Python objects are modelled as a small heap: a list object is an entry  *)
(* of `lists`, and a container or a cursor holds the name of the object it *)
(* refers to, so that two references to one list object alias.             *)
(***************************************************************************)
EXTENDS Integers, Sequences, FiniteSets, TLC

\* ------------------------------------------------------------------ bounds
\* The longest list the model builds.
MaxLen == 3
\* The most __next__ calls the model makes on one cursor: a full traversal of
\* the longest list and two calls past its end.
MaxCalls == MaxLen + 2

\* The items a client appends (the driver's first two words).
Items == {"First", "Second"}
Elements == Items \cup {"Third"}
\* The containers and cursors a client may construct.
ContIds == {"c1", "c2"}
CurIds == {"k1", "k2"}

None == "None"
\* The absent object: a name not yet bound to a container or a cursor.
Null == [class |-> "NoneType"]
StopIteration == "StopIteration"
TypeError == "TypeError"
IndexError == "IndexError"
OverflowError == "OverflowError"

\* The list object created once, when `def __init__(self, collection=[])` is
\* evaluated, and handed to every call that omits the argument.
DefaultList == "default"
\* A list object per container for the call WordsCollection(some_list): the
\* caller's own list, named after the container it is passed to.
ListIds == {DefaultList} \cup ContIds

\* The lists a client passes to WordsCollection(some_list): the driver's words
\* in order, cut to every length the model allows.
Words == <<"First", "Second", "Third", "First", "Second", "Third">>
InitialLists == {SubSeq(Words, 1, n) : n \in 0..MaxLen}

\* Names are handed out in order: the client binds c1 before c2, k1 before k2.
Earlier(x) == IF x = "c2" THEN {"c1"} ELSE IF x = "k2" THEN {"k1"} ELSE {}

VARIABLES
    lists,       \* the heap of list objects: ListIds -> sequence of items
    containers,  \* ContIds -> Null or a WordsCollection object
    cursors,     \* CurIds -> Null or an AlphabeticalOrderIterator object
    added,       \* history: ContIds -> the items passed to this container's add_item, in order
    obs,         \* history: CurIds -> what the client saw of the cursor's __next__ calls
    wrap,        \* the state of the wrapper scenario (CalendarIterator vs generator)
    range        \* the state of the range-bounded generator scenario

vars == <<lists, containers, cursors, added, obs, wrap, range>>

\* ------------------------------------------------------- list.__getitem__
\* Python's list indexing: 0 <= i < n counts from the front, -n <= i < 0 from
\* the back, anything else raises IndexError.
Subscript(s, i) ==
    IF i >= 0 /\ i < Len(s) THEN s[i + 1]
    ELSE IF i < 0 /\ i >= -Len(s) THEN s[Len(s) + i + 1]
    ELSE IndexError

\* self._collection[self._position] for a cursor object cur on heap h: a list
\* is indexed; a WordsCollection defines no __getitem__, so subscripting it
\* raises TypeError.
Lookup(h, cur) ==
    IF cur.kind = "list" THEN Subscript(h[cur.ref], cur.position)
    ELSE TypeError

\* ------------------------------------------- AlphabeticalOrderIterator
\* The bug of starting a forward cursor one element in.
StartPositionSkipsFirst(reverse) == IF reverse THEN -1 ELSE 1

\* __init__(collection, reverse): position -1 when reverse, else 0.
StartPosition(reverse) == IF reverse THEN -1 ELSE 0

IteratorInit(kind, ref, reverse, via) ==
    [class |-> "AlphabeticalOrderIterator", kind |-> kind, ref |-> ref,
     reverse |-> reverse, position |-> StartPosition(reverse), via |-> via]

\* The step of line 76 on the cursors: only cursor k moves, by -1 or +1. The
\* shared variant is the bug of keeping the position in the class attribute.
SharedPositionAdvance(cs, k) ==
    [j \in CurIds |->
        IF cs[j] # Null /\ cs[j].kind = cs[k].kind /\ cs[j].ref = cs[k].ref
        THEN [cs[j] EXCEPT !.position = @ + (IF cs[k].reverse THEN -1 ELSE 1)]
        ELSE cs[j]]

Advance(cs, k) ==
    [cs EXCEPT ![k].position = @ + (IF cs[k].reverse THEN -1 ELSE 1)]

\* What __next__ gives its caller: the value, or the exception that leaves it.
\* IndexError is caught and replaced by StopIteration; TypeError is not caught.
NextResult(h, cur) ==
    LET v == Lookup(h, cur) IN
    IF v = IndexError THEN StopIteration ELSE v

\* The bug of moving the position before the lookup: it moves on a failed
\* lookup too.
NextCursorsMovesFirst(h, cs, k) ==
    IF Lookup(h, cs[k]) = TypeError THEN cs ELSE Advance(cs, k)

\* The cursors after __next__ on k: the position moves only when the lookup
\* succeeded (the increment is the statement after it inside the try).
NextCursors(h, cs, k) ==
    IF Lookup(h, cs[k]) \in {IndexError, TypeError} THEN cs ELSE Advance(cs, k)

\* ---------------------------------------------------------- observations
NoObs == [calls |-> 0, last |-> None, dirty |-> FALSE, stopped |-> FALSE]

\* The list object behind container c.
Backing(c) == containers[c].collection
Contents(c) == lists[Backing(c)]

\* Cursor k reads list object l (directly or never, for a container target).
ReadsList(k, l) == cursors[k] # Null /\ cursors[k].kind = "list" /\ cursors[k].ref = l

\* The idle values of the other scenarios' variables.
WrapIdle == [on |-> FALSE]
RangeIdle == [on |-> FALSE]

\* ------------------------------------------------------------------- Init
Init ==
    /\ lists = [l \in ListIds |-> <<>>]
    /\ containers = [c \in ContIds |-> Null]
    /\ cursors = [k \in CurIds |-> Null]
    /\ added = [c \in ContIds |-> <<>>]
    /\ obs = [k \in CurIds |-> NoObs]
    /\ wrap = WrapIdle
    /\ range = RangeIdle

\* ---------------------------------------------------------------- actions
\* WordsCollection(): the default argument, the one shared list object.
NewCollection(c) ==
    /\ containers[c] = Null
    /\ \A e \in Earlier(c) : containers[e] # Null
    /\ containers' = [containers EXCEPT ![c] =
                        [class |-> "WordsCollection", collection |-> DefaultList,
                         initial |-> <<>>, defaulted |-> TRUE]]
    /\ UNCHANGED <<lists, cursors, added, obs, wrap, range>>

\* WordsCollection(s): the container keeps the caller's list object.
NewCollectionFrom(c, s) ==
    /\ containers[c] = Null
    /\ \A e \in Earlier(c) : containers[e] # Null
    /\ lists' = [lists EXCEPT ![c] = s]
    /\ containers' = [containers EXCEPT ![c] =
                        [class |-> "WordsCollection", collection |-> c,
                         initial |-> s, defaulted |-> FALSE]]
    /\ UNCHANGED <<cursors, added, obs, wrap, range>>

\* add_item(item): self._collection.append(item).
AddItem(c, item) ==
    /\ containers[c] # Null
    /\ Len(Contents(c)) < MaxLen
    /\ lists' = [lists EXCEPT ![Backing(c)] = Append(@, item)]
    /\ added' = [added EXCEPT ![c] = Append(@, item)]
    /\ obs' = [k \in CurIds |->
                 IF ReadsList(k, Backing(c)) THEN [obs[k] EXCEPT !.dirty = TRUE] ELSE obs[k]]
    /\ UNCHANGED <<containers, cursors, wrap, range>>

\* __iter__(): AlphabeticalOrderIterator(self._collection).
Iter(c, k) ==
    /\ containers[c] # Null
    /\ cursors[k] = Null
    /\ \A e \in Earlier(k) : cursors[e] # Null
    /\ cursors' = [cursors EXCEPT ![k] = IteratorInit("list", Backing(c), FALSE, c)]
    /\ UNCHANGED <<lists, containers, added, obs, wrap, range>>

\* get_reverse_iterator(): AlphabeticalOrderIterator(self._collection, True).
GetReverseIterator(c, k) ==
    /\ containers[c] # Null
    /\ cursors[k] = Null
    /\ \A e \in Earlier(k) : cursors[e] # Null
    /\ cursors' = [cursors EXCEPT ![k] = IteratorInit("list", Backing(c), TRUE, c)]
    /\ UNCHANGED <<lists, containers, added, obs, wrap, range>>

\* AlphabeticalOrderIterator(collection, reverse) called by the client with a
\* WordsCollection, as the parameter is annotated.
NewIterator(c, k, reverse) ==
    /\ containers[c] # Null
    /\ cursors[k] = Null
    /\ \A e \in Earlier(k) : cursors[e] # Null
    /\ cursors' = [cursors EXCEPT ![k] = IteratorInit("WordsCollection", c, reverse, None)]
    /\ UNCHANGED <<lists, containers, added, obs, wrap, range>>

\* __next__() on cursor k.
Next_(k) ==
    /\ cursors[k] # Null
    /\ obs[k].calls < MaxCalls
    /\ LET r == NextResult(lists, cursors[k]) IN
       obs' = [obs EXCEPT ![k] = [calls |-> @.calls + 1, last |-> r, dirty |-> @.dirty,
                                   stopped |-> @.stopped \/ r = StopIteration]]
    /\ cursors' = NextCursors(lists, cursors, k)
    /\ UNCHANGED <<lists, containers, added, wrap, range>>

\* The client's next operation, on containers CS and cursors KS.
Step(CS, KS) ==
    \/ \E c \in CS : NewCollection(c)
    \/ \E c \in CS, s \in InitialLists : NewCollectionFrom(c, s)
    \/ \E c \in CS, item \in Items : AddItem(c, item)
    \/ \E c \in CS, k \in KS : Iter(c, k)
    \/ \E c \in CS, k \in KS : GetReverseIterator(c, k)
    \/ \E c \in CS, k \in KS, reverse \in BOOLEAN : NewIterator(c, k, reverse)
    \/ \E k \in KS : Next_(k)

\* Two containers and one cursor: what containers do to each other.
Next == Step(ContIds, {"k1"})
Spec == Init /\ [][Next]_vars

\* One container and two cursors: what cursors do to each other.
NextPair == Step({"c1"}, CurIds)
SpecPair == Init /\ [][NextPair]_vars

\* ===================================================== test_iterator.py
\* ------------------------------------------------------ CalendarIterator
\* __init__: the position starts at 0.
CalendarStart == [position |-> 0]

\* __next__: the value at the position, StopIteration for the caught IndexError.
CalendarResult(s, it) ==
    LET v == Subscript(s, it.position) IN
    IF v = IndexError THEN StopIteration ELSE v

\* The position after a successful lookup. The skipping variant is the bug of
\* stepping over an element.
CalendarAdvanceSkips(position) == position + 2

CalendarAdvance(position) == position + 1

\* The iterator after __next__: the position moves only when the lookup succeeded.
CalendarAfter(s, it) ==
    IF Subscript(s, it.position) = IndexError THEN it
    ELSE [it EXCEPT !.position = CalendarAdvance(@)]

\* ------------------------------------------- calendar_generator_collect
\* The generator object: not started, suspended at the yield inside the for
\* loop (whose list iterator is at `index`), or finished.
GeneratorStart == [pc |-> "created", index |-> 0]

\* One pull. A finished generator raises StopIteration. Otherwise the for loop
\* asks its list iterator: an element while index < len, else the loop ends,
\* the function returns and the generator is finished.
CollectResult(s, g) ==
    IF g.pc = "finished" THEN StopIteration
    ELSE IF g.index < Len(s) THEN s[g.index + 1]
    ELSE StopIteration

CollectAfter(s, g) ==
    IF g.pc = "finished" THEN g
    ELSE IF g.index < Len(s) THEN [pc |-> "suspended", index |-> g.index + 1]
    ELSE [pc |-> "finished", index |-> g.index]

\* The wrapper scenario: one list s, held by a CollectionCalendarDays, read by
\* a CalendarIterator from its __iter__ and by a calendar_generator_collect
\* generator, both made before any pull.
WrapStart(s) ==
    [on |-> TRUE, seq |-> s, it |-> CalendarStart, gen |-> GeneratorStart,
     modified |-> FALSE,
     ccalls |-> 0, clast |-> None, gcalls |-> 0, glast |-> None]

InitWrap ==
    /\ lists = [l \in ListIds |-> <<>>]
    /\ containers = [c \in ContIds |-> Null]
    /\ cursors = [k \in CurIds |-> Null]
    /\ added = [c \in ContIds |-> <<>>]
    /\ obs = [k \in CurIds |-> NoObs]
    /\ wrap \in {WrapStart(s) : s \in UNION {[1..m -> Items] : m \in 0..MaxLen}}
    /\ range = RangeIdle

\* CollectionCalendarDays.add_item(item): self._collection.append(item).
CalendarAddItem(item) ==
    /\ wrap.on
    /\ Len(wrap.seq) < MaxLen
    /\ wrap' = [wrap EXCEPT !.seq = Append(@, item), !.modified = TRUE]
    /\ UNCHANGED <<lists, containers, cursors, added, obs, range>>

\* next(calendar_iterator).
CalendarNext ==
    /\ wrap.on
    /\ wrap.ccalls < MaxCalls
    /\ wrap' = [wrap EXCEPT !.it = CalendarAfter(wrap.seq, @),
                            !.ccalls = @ + 1,
                            !.clast = CalendarResult(wrap.seq, wrap.it)]
    /\ UNCHANGED <<lists, containers, cursors, added, obs, range>>

\* next(generator_calendar).
CollectPull ==
    /\ wrap.on
    /\ wrap.gcalls < MaxCalls
    /\ wrap' = [wrap EXCEPT !.gen = CollectAfter(wrap.seq, @),
                            !.gcalls = @ + 1,
                            !.glast = CollectResult(wrap.seq, wrap.gen)]
    /\ UNCHANGED <<lists, containers, cursors, added, obs, range>>

NextWrap ==
    \/ \E item \in Items : CalendarAddItem(item)
    \/ CalendarNext
    \/ CollectPull

SpecWrap == InitWrap /\ [][NextWrap]_vars

\* ------------------------------------------------ CollectionCalendarDays
\* The day strings a client adds (the driver's '%d %B' strings of October).
Days == {"01 October", "02 October"}
\* The most items one add_items call passes.
MaxBatch == 2
DayLists == UNION {[1..m -> Days] : m \in 0..MaxBatch}

\* CollectionCalendarDays(): the default argument of its own __init__, again
\* one list object shared by every call that omits the argument.
DaysNew(c) ==
    /\ containers[c] = Null
    /\ \A e \in Earlier(c) : containers[e] # Null
    /\ containers' = [containers EXCEPT ![c] =
                        [class |-> "CollectionCalendarDays", collection |-> DefaultList,
                         initial |-> <<>>, defaulted |-> TRUE]]
    /\ UNCHANGED <<lists, cursors, added, obs, wrap, range>>

\* CollectionCalendarDays(s): the container keeps the caller's list object.
DaysNewFrom(c, s) ==
    /\ containers[c] = Null
    /\ \A e \in Earlier(c) : containers[e] # Null
    /\ lists' = [lists EXCEPT ![c] = s]
    /\ containers' = [containers EXCEPT ![c] =
                        [class |-> "CollectionCalendarDays", collection |-> c,
                         initial |-> s, defaulted |-> FALSE]]
    /\ UNCHANGED <<cursors, added, obs, wrap, range>>

\* The list after self._collection.extend(items): items at the end, in order.
Extend(s, items) == s \o items

\* add_items(items): self._collection.extend(items).
DaysAddItems(c, items) ==
    /\ containers[c] # Null
    /\ Len(Contents(c)) + Len(items) <= MaxLen
    /\ lists' = [lists EXCEPT ![Backing(c)] = Extend(@, items)]
    /\ added' = [added EXCEPT ![c] = @ \o items]
    /\ obs' = [k \in CurIds |->
                 IF ReadsList(k, Backing(c)) /\ items # <<>>
                 THEN [obs[k] EXCEPT !.dirty = TRUE] ELSE obs[k]]
    /\ UNCHANGED <<containers, cursors, wrap, range>>

\* add_item(item): self._collection.append(item).
DaysAddItem(c, item) ==
    /\ containers[c] # Null
    /\ Len(Contents(c)) < MaxLen
    /\ lists' = [lists EXCEPT ![Backing(c)] = Append(@, item)]
    /\ added' = [added EXCEPT ![c] = Append(@, item)]
    /\ obs' = [k \in CurIds |->
                 IF ReadsList(k, Backing(c)) THEN [obs[k] EXCEPT !.dirty = TRUE] ELSE obs[k]]
    /\ UNCHANGED <<containers, cursors, wrap, range>>

\* __iter__(): CalendarIterator(self._collection).
DaysIter(c, k) ==
    /\ containers[c] # Null
    /\ cursors[k] = Null
    /\ \A e \in Earlier(k) : cursors[e] # Null
    /\ cursors' = [cursors EXCEPT ![k] =
                     [class |-> "CalendarIterator", kind |-> "list", ref |-> Backing(c),
                      reverse |-> FALSE, position |-> CalendarStart.position, via |-> c]]
    /\ UNCHANGED <<lists, containers, added, obs, wrap, range>>

\* CalendarIterator.__next__() on cursor k.
DaysNext(k) ==
    /\ cursors[k] # Null
    /\ obs[k].calls < MaxCalls
    /\ LET r == CalendarResult(lists[cursors[k].ref], cursors[k]) IN
       obs' = [obs EXCEPT ![k] = [calls |-> @.calls + 1, last |-> r, dirty |-> @.dirty,
                                   stopped |-> @.stopped \/ r = StopIteration]]
    /\ cursors' = [cursors EXCEPT ![k] = CalendarAfter(lists[cursors[k].ref], @)]
    /\ UNCHANGED <<lists, containers, added, wrap, range>>

\* Two calendar containers and one CalendarIterator.
NextDays ==
    \/ \E c \in ContIds : DaysNew(c)
    \/ \E c \in ContIds, s \in DayLists : DaysNewFrom(c, s)
    \/ \E c \in ContIds, item \in Days : DaysAddItem(c, item)
    \/ \E c \in ContIds, items \in DayLists : DaysAddItems(c, items)
    \/ \E c \in ContIds : DaysIter(c, "k1")
    \/ DaysNext("k1")

SpecDays == Init /\ [][NextDays]_vars

\* ------------------------------------------ datetime.date, as the code uses it
\* A date is a record [year, month, day] of the proleptic Gregorian calendar,
\* date.min = 0001-01-01 up to date.max = 9999-12-31.
Date(y, m, d) == [year |-> y, month |-> m, day |-> d]

IsLeap(y) == y % 4 = 0 /\ (y % 100 # 0 \/ y % 400 = 0)

DaysInMonth(y, m) ==
    IF m = 2 THEN (IF IsLeap(y) THEN 29 ELSE 28)
    ELSE IF m \in {4, 6, 9, 11} THEN 30 ELSE 31

RECURSIVE DaysBeforeMonth(_, _)
DaysBeforeMonth(y, m) ==
    IF m <= 1 THEN 0 ELSE DaysBeforeMonth(y, m - 1) + DaysInMonth(y, m - 1)

DaysBeforeYear(y) ==
    LET p == y - 1 IN p * 365 + (p \div 4) - (p \div 100) + (p \div 400)

\* date.toordinal(): 0001-01-01 is day 1.
ToOrdinal(dt) == DaysBeforeYear(dt.year) + DaysBeforeMonth(dt.year, dt.month) + dt.day

\* date.fromordinal(n): the 400-, 100-, 4- and 1-year cycles, then the month.
FromOrdinal(n) ==
    LET n0 == n - 1
        n400 == n0 \div 146097
        r400 == n0 % 146097
        n100 == r400 \div 36524
        r100 == r400 % 36524
        n4 == r100 \div 1461
        r4 == r100 % 1461
        n1 == r4 \div 365
        r1 == r4 % 365
        y == n400 * 400 + n100 * 100 + n4 * 4 + n1 + 1
    IN IF n1 = 4 \/ n100 = 4 THEN Date(y - 1, 12, 31)
       ELSE LET m == CHOOSE mm \in 1..12 :
                        /\ DaysBeforeMonth(y, mm) <= r1
                        /\ r1 < DaysBeforeMonth(y, mm) + DaysInMonth(y, mm)
            IN Date(y, m, r1 - DaysBeforeMonth(y, m) + 1)

\* date.max.toordinal().
MaxOrdinal == ToOrdinal(Date(9999, 12, 31))

\* a <= b on dates: by year, then month, then day.
DateLE(a, b) ==
    \/ a.year < b.year
    \/ a.year = b.year /\ a.month < b.month
    \/ a.year = b.year /\ a.month = b.month /\ a.day <= b.day

\* dt + timedelta(days=1): through the ordinal; past date.max it raises
\* OverflowError ("date value out of range").
Overflows(dt) == ToOrdinal(dt) + 1 > MaxOrdinal
PlusOneDay(dt) == FromOrdinal(ToOrdinal(dt) + 1)

MonthNames ==
    <<"January", "February", "March", "April", "May", "June", "July",
      "August", "September", "October", "November", "December">>

\* strftime('%d %B'): the day of the month (two digits) and the month's full
\* name; the year is not part of the text.
Strftime(dt) == [tag |-> "str", day |-> dt.day, month |-> MonthNames[dt.month]]

Raised(e) == [tag |-> e]

\* ------------------------------------------ calendar_generator_datetime
\* The generator object: start_calendar as it stands, and where the function
\* is: not started, suspended at the yield, or finished.
DatetimeStart(start) == [pc |-> "created", cur |-> start]

\* start_calendar when the while test is next evaluated: unchanged on the
\* first pull, one day later (line 99) on a resumed one.
AtLoopTest(g) == IF g.pc = "suspended" THEN PlusOneDay(g.cur) ELSE g.cur

\* One pull of the generator with end boundary e.
DatetimeResult(e, g) ==
    IF g.pc = "finished" THEN Raised(StopIteration)
    ELSE IF g.pc = "suspended" /\ Overflows(g.cur) THEN Raised(OverflowError)
    ELSE IF DateLE(AtLoopTest(g), e) THEN Strftime(AtLoopTest(g))
    ELSE Raised(StopIteration)

\* An exception that leaves the function, like its return, finishes the generator.
DatetimeAfter(e, g) ==
    IF g.pc = "finished" THEN g
    ELSE IF g.pc = "suspended" /\ Overflows(g.cur) THEN [pc |-> "finished", cur |-> g.cur]
    ELSE IF DateLE(AtLoopTest(g), e) THEN [pc |-> "suspended", cur |-> AtLoopTest(g)]
    ELSE [pc |-> "finished", cur |-> AtLoopTest(g)]

\* The most days between the boundaries the model draws.
MaxSpan == 3
\* The most pulls on one generator: through the longest range and twice past it.
MaxPulls == MaxSpan + 3

\* The generators of the scenario, made with the same boundaries.
GenIds == {"g1", "g2"}

\* The days the boundaries are drawn around: the driver's 1 September 2023
\* (across the end of August), a leap day, and the last days of date.max's year.
Anchors == {Date(2023, 8, 30), Date(2024, 2, 27), Date(9999, 12, 29)}

\* The boundary pairs: start within two days of an anchor, end from one day
\* before start to MaxSpan days after it, both dates that exist.
Boundaries ==
    {<<FromOrdinal(ToOrdinal(a) + i), FromOrdinal(ToOrdinal(a) + i + j)>> :
        <<a, i, j>> \in {x \in Anchors \X (0..2) \X (-1..MaxSpan) :
                            ToOrdinal(x[1]) + x[2] + x[3] <= MaxOrdinal}}

RangeStart(start, end) ==
    [on |-> TRUE, start |-> start, end |-> end,
     gens |-> [g \in GenIds |-> DatetimeStart(start)],
     calls |-> [g \in GenIds |-> 0],
     last |-> [g \in GenIds |-> Raised(None)]]

InitRange ==
    /\ lists = [l \in ListIds |-> <<>>]
    /\ containers = [c \in ContIds |-> Null]
    /\ cursors = [k \in CurIds |-> Null]
    /\ added = [c \in ContIds |-> <<>>]
    /\ obs = [k \in CurIds |-> NoObs]
    /\ wrap = WrapIdle
    /\ range \in {RangeStart(b[1], b[2]) : b \in Boundaries}

\* The bug of keeping start_calendar in a variable the instances share: a pull
\* on one generator moves every generator.
DatetimePullShared(g) ==
    /\ range.on
    /\ range.calls[g] < MaxPulls
    /\ range' = [range EXCEPT !.gens = [h \in GenIds |-> DatetimeAfter(range.end, range.gens[g])],
                              !.calls[g] = @ + 1,
                              !.last[g] = DatetimeResult(range.end, range.gens[g])]
    /\ UNCHANGED <<lists, containers, cursors, added, obs, wrap>>

\* next(generator_calendar) on generator g.
DatetimePull(g) ==
    /\ range.on
    /\ range.calls[g] < MaxPulls
    /\ range' = [range EXCEPT !.gens[g] = DatetimeAfter(range.end, @),
                              !.calls[g] = @ + 1,
                              !.last[g] = DatetimeResult(range.end, range.gens[g])]
    /\ UNCHANGED <<lists, containers, cursors, added, obs, wrap>>

NextRange == \E g \in GenIds : DatetimePull(g)

SpecRange == InitRange /\ [][NextRange]_vars

\* ------------------------------------------------------------ run alone
\* The result of the n-th __next__ (n >= 1) of cursor object cur when it is the
\* only cursor and the list it reads stays s: the cursor's own code, iterated.
RECURSIVE RunAlone(_, _, _)
RunAlone(s, cur, n) ==
    LET h == [l \in ListIds |-> s]
        cs == [j \in CurIds |-> IF j = "k1" THEN cur ELSE Null]
    IN IF n <= 1 THEN NextResult(h, cur)
       ELSE RunAlone(s, NextCursors(h, cs, "k1")["k1"], n - 1)

\* The cursor object k was when it was constructed.
Fresh(k) == IteratorInit(cursors[k].kind, cursors[k].ref, cursors[k].reverse, cursors[k].via)

\* Cursor k came from __iter__ (reverse = FALSE) or get_reverse_iterator
\* (reverse = TRUE) of a container that started empty, the list is as it was
\* when k was made, and k has been asked at least once.
TraversesAppended(k, reverse) ==
    /\ cursors[k] # Null
    /\ cursors[k].via # None
    /\ cursors[k].reverse = reverse
    /\ containers[cursors[k].via].initial = <<>>
    /\ ~obs[k].dirty
    /\ obs[k].calls > 0

\* C1: a forward cursor of a container populated by add_item(i1..iN) and not
\* modified afterwards returns i1, ..., iN in that order and then signals
\* StopIteration: its n-th result is the n-th item added to that container,
\* or StopIteration for n = N + 1.
C1_ForwardYieldsAppended ==
    \A k \in CurIds :
        TraversesAppended(k, FALSE) =>
            LET own == added[cursors[k].via]
                n == obs[k].calls
            IN obs[k].last = (IF n <= Len(own) THEN own[n] ELSE StopIteration)

\* C2: a backward cursor of such a container returns iN, ..., i1 and then
\* signals StopIteration: its n-th result is the (N - n + 1)-th item added to
\* that container, or StopIteration for n = N + 1.
C2_BackwardYieldsAppendedReversed ==
    \A k \in CurIds :
        TraversesAppended(k, TRUE) =>
            LET own == added[cursors[k].via]
                n == obs[k].calls
            IN obs[k].last = (IF n <= Len(own) THEN own[Len(own) - n + 1] ELSE StopIteration)

\* C3: exhaustion is terminal: a cursor that has once signalled StopIteration
\* signals it on every later __next__, whatever was appended in between.
C3_ExhaustionIsTerminal ==
    \A k \in CurIds : obs[k].stopped => obs[k].last = StopIteration

\* C4: a forward and a backward cursor over the same unmodified container do
\* not interfere: under every interleaving of their __next__ calls, the n-th
\* result of each is the n-th result of that cursor run alone.
C4_CursorsDoNotInterfere ==
    \A f \in CurIds, b \in CurIds :
        ( /\ f # b
          /\ ReadsList(f, cursors[f].ref) /\ ReadsList(b, cursors[f].ref)
          /\ ~cursors[f].reverse /\ cursors[b].reverse
          /\ ~obs[f].dirty /\ ~obs[b].dirty )
        => \A k \in {f, b} :
              obs[k].calls > 0 =>
                  obs[k].last = RunAlone(lists[cursors[k].ref], Fresh(k), obs[k].calls)

\* Both cursors have been asked twice, interleaved, over a list of two or more
\* items that was not changed: each has passed the other's position.
C4_Witness ==
    \E f \in CurIds, b \in CurIds :
        /\ f # b
        /\ ReadsList(f, cursors[f].ref) /\ ReadsList(b, cursors[f].ref)
        /\ ~cursors[f].reverse /\ cursors[b].reverse
        /\ ~obs[f].dirty /\ ~obs[b].dirty
        /\ Len(lists[cursors[f].ref]) >= 2
        /\ obs[f].calls >= 2 /\ obs[b].calls >= 2
        /\ obs[f].last = lists[cursors[f].ref][2]
        /\ obs[b].last = lists[cursors[f].ref][Len(lists[cursors[f].ref]) - 1]

\* What __next__ on cursor k would give now.
Peek(k) == NextResult(lists, cursors[k])

\* C5: add_item does not invalidate a cursor's position: a cursor whose
\* position indexes an element before the append gives that same element on
\* its next __next__ after the append.
C5_AppendKeepsCursorElement ==
    [][\A k \in CurIds :
          ( /\ cursors[k] # Null /\ cursors[k].kind = "list"
            /\ Len(lists'[cursors[k].ref]) = Len(lists[cursors[k].ref]) + 1
            /\ Peek(k) \in Elements )
          => Peek(k)' = Peek(k)]_vars

\* C6: a container constructed without an initial sequence is empty at
\* construction, and add_item on one such container never changes the
\* contents of another.
C6_DefaultContainersAreSeparate ==
    [][ /\ \A c \in ContIds :
             (containers[c] = Null /\ containers'[c] # Null /\ containers'[c].defaulted)
             => lists'[containers'[c].collection] = <<>>
        /\ \A c \in ContIds, d \in ContIds :
             ( /\ c # d /\ containers[c] # Null /\ containers[d] # Null
               /\ containers[c].defaulted /\ containers[d].defaulted
               /\ added'[c] # added[c] )
             => Contents(d)' = Contents(d) ]_vars

\* The contents of every container are its initial sequence followed by the
\* items added to it, in order.
ContentsAreInitialThenAdded ==
    \A c \in ContIds : containers[c] # Null => Contents(c) = containers[c].initial \o added[c]

\* C7: in every state a container holds its initial sequence followed by all
\* the items appended to it, in append order; and a step that constructs no
\* container and appends nothing (creating a cursor, __next__) changes no list.
C7_ContentsAreInitialThenAdded ==
    [][ /\ ContentsAreInitialThenAdded'
        /\ (containers' = containers /\ added' = added) => lists' = lists ]_vars

\* C8: StopIteration is the only error: every __next__, on a cursor from the
\* container's methods or constructed directly, returns an element or signals
\* StopIteration.
C8_OnlyStopIteration ==
    \A k \in CurIds : obs[k].calls > 0 => obs[k].last \in Elements \cup {StopIteration}

\* The n-th value of list s in stored order, StopIteration past its end.
KthInOrder(s, n) == IF n <= Len(s) THEN s[n] ELSE StopIteration

\* C9: over a sequence that is not modified, the k-th pull of the
\* calendar_generator_collect generator gives what the k-th __next__ of a
\* CalendarIterator over the same sequence gives: the k-th element in stored
\* order, or StopIteration past the last element.
C9_GeneratorMatchesCursor ==
    (wrap.on /\ ~wrap.modified /\ wrap.gcalls >= 1 /\ wrap.gcalls = wrap.ccalls) =>
        /\ wrap.glast = wrap.clast
        /\ wrap.glast = KthInOrder(wrap.seq, wrap.gcalls)

\* Both have been pulled through a list of two or more items and twice past
\* its end, and both signalled StopIteration.
C9_Witness ==
    /\ wrap.on /\ ~wrap.modified
    /\ Len(wrap.seq) >= 2
    /\ wrap.gcalls = Len(wrap.seq) + 2 /\ wrap.ccalls = Len(wrap.seq) + 2
    /\ wrap.glast = StopIteration /\ wrap.clast = StopIteration

\* The number of days from start through end inclusive, 0 when start > end.
DaysInRange ==
    IF DateLE(range.start, range.end)
    THEN ToOrdinal(range.end) - ToOrdinal(range.start) + 1 ELSE 0

\* C10: the range-bounded generator yields one value for each consecutive day
\* from start through end inclusive, in ascending order ((end - start) + 1
\* values, none when start > end), and signals StopIteration on the pull
\* that follows the last value.
C10_YieldsEachDayThenStops ==
    \A g \in GenIds :
        (range.on /\ range.calls[g] >= 1 /\ range.calls[g] <= DaysInRange + 1) =>
            range.last[g] =
                (IF range.calls[g] <= DaysInRange
                 THEN Strftime(FromOrdinal(ToOrdinal(range.start) + range.calls[g] - 1))
                 ELSE Raised(StopIteration))

\* C11: the range-bounded generator is deterministic and single-pass: two
\* instances made with the same boundaries give the same n-th result under
\* every interleaving of their pulls, and an instance that has signalled
\* StopIteration signals it on every later pull (it never yields again).
C11_DeterministicSinglePass ==
    [][ /\ \A g \in GenIds, h \in GenIds :
             (range'.calls[g] = range'.calls[h]) => range'.last[g] = range'.last[h]
        /\ \A g \in GenIds :
             (range.last[g] = Raised(StopIteration) /\ range'.calls[g] # range.calls[g])
             => range'.last[g] = Raised(StopIteration) ]_vars

\* Both instances went through a range of two or more days and two pulls past
\* it: the same count of pulls, both signalling StopIteration.
C11_Witness ==
    /\ range.on /\ DaysInRange >= 2
    /\ \A g \in GenIds :
          range.calls[g] = DaysInRange + 2 /\ range.last[g] = Raised(StopIteration)

\* C12: iterating a CollectionCalendarDays built by add_item and add_items
\* calls yields every added day string once, in the order added (the items of
\* an add_items call in list order, after all earlier items), and the call
\* after the last one raises StopIteration: the n-th result of its
\* CalendarIterator is the n-th string added to that container.
C12_CalendarYieldsAdded ==
    \A k \in CurIds :
        (TraversesAppended(k, FALSE) /\ cursors[k].class = "CalendarIterator") =>
            obs[k].last = KthInOrder(added[cursors[k].via], obs[k].calls)

\* Cursor k is constructed over a list in this step.
Constructed(k) == cursors[k] = Null /\ cursors'[k] # Null /\ cursors'[k].kind = "list"

\* __next__ is called on cursor k, which reads a list, in this step.
Called(k) == cursors[k] # Null /\ cursors[k].kind = "list" /\ obs'[k].calls = obs[k].calls + 1

\* C13: a cursor's position starts at 0 (forward) or at length - 1 of the
\* container at construction (backward); a __next__ call signals
\* StopIteration exactly when the position lies outside [0, length) at the
\* time of the call, and otherwise returns the element at that position and
\* moves the position by +1 (forward) or -1 (backward).
C13_PositionWithinLength ==
    [][\A k \in CurIds :
          /\ Constructed(k) =>
                cursors'[k].position =
                    (IF cursors'[k].reverse THEN Len(lists[cursors'[k].ref]) - 1 ELSE 0)
          /\ Called(k) =>
                LET s == lists[cursors[k].ref]
                    p == cursors[k].position
                IN IF p < 0 \/ p >= Len(s)
                   THEN obs'[k].last = StopIteration /\ cursors'[k].position = p
                   ELSE /\ obs'[k].last = s[p + 1]
                        /\ cursors'[k].position = p + (IF cursors[k].reverse THEN -1 ELSE 1)]_vars

\* C14: a __next__ call that signals StopIteration leaves the cursor's
\* position and every list unchanged, so the cursor is still exhausted after
\* it; and while no list is appended to, an exhausted cursor stays exhausted
\* and every __next__ on it signals StopIteration again.
C14_StopIsIdempotent ==
    [][\A k \in CurIds :
          /\ (Called(k) /\ obs'[k].last = StopIteration) =>
                /\ cursors'[k] = cursors[k]
                /\ lists' = lists /\ containers' = containers
                /\ Peek(k)' = StopIteration
          /\ (cursors[k] # Null /\ Peek(k) = StopIteration /\ lists' = lists) =>
                /\ Peek(k)' = StopIteration
                /\ Called(k) => obs'[k].last = StopIteration]_vars

\* A cursor went through an unchanged list of two or more items and signalled
\* StopIteration on two calls in a row.
C14_Witness ==
    \E k \in CurIds :
        /\ cursors[k] # Null /\ cursors[k].kind = "list"
        /\ Len(lists[cursors[k].ref]) >= 2
        /\ ~obs[k].dirty
        /\ obs[k].calls = Len(lists[cursors[k].ref]) + 2
        /\ obs[k].last = StopIteration
        /\ Peek(k) = StopIteration

\* C15: there is no snapshot: a __next__ call is decided by the list as it is
\* at the call. Lists only grow at the end, and the (n+1)-th call on a forward
\* cursor that has not yet signalled StopIteration returns the (n+1)-th
\* element of the list as it is now, signalling StopIteration only when all
\* elements, those appended after its creation included, have been returned.
C15_ForwardSeesLaterAppends ==
    [][ /\ \A l \in ListIds :
             /\ Len(lists'[l]) >= Len(lists[l])
             /\ SubSeq(lists'[l], 1, Len(lists[l])) = lists[l]
        /\ \A k \in CurIds :
             (Called(k) /\ ~cursors[k].reverse /\ ~obs[k].stopped) =>
                LET s == lists[cursors[k].ref]
                    n == obs[k].calls
                IN IF n < Len(s)
                   THEN obs'[k].last = s[n + 1] /\ ~obs'[k].stopped
                   ELSE obs'[k].last = StopIteration ]_vars

\* A forward cursor whose list was appended to after its creation returned
\* every element of the list, two or more, and then signalled StopIteration
\* for the first time.
C15_Witness ==
    \E k \in CurIds :
        /\ cursors[k] # Null /\ cursors[k].kind = "list" /\ ~cursors[k].reverse
        /\ obs[k].dirty
        /\ Len(lists[cursors[k].ref]) >= 2
        /\ cursors[k].position = Len(lists[cursors[k].ref])
        /\ obs[k].calls = Len(lists[cursors[k].ref]) + 1
        /\ obs[k].last = StopIteration

====
